---- MODULE Spec2Model ----
(***************************************************************************)
(* A model of the query resolution pipeline of the Data Fetcher plugin:   *)
(* parseDataQuery and executeQuery (src/src/queryEngine.ts), CacheManager  *)
(* (src/src/cacheManager.ts) and the data-query code block processor and   *)
(* the settings tab of the plugin (src/unnamed/part_000).                  *)
(***************************************************************************)
EXTENDS Integers, Sequences, FiniteSets, TLC

(***************************************************************************)
(* JavaScript values.  An object is the sequence of its <<key, value>>     *)
(* members in insertion order, which is the order JSON.stringify writes    *)
(* them in.                                                                *)
(***************************************************************************)
Undefined == [t |-> "undefined"]
Null == [t |-> "null"]
Str(s) == [t |-> "string", s |-> s]
Num(n) == [t |-> "number", n |-> n]
Obj(kv) == [t |-> "object", kv |-> kv]

\* JavaScript truthiness, as used by `if (x)`, `!x` and `x || y`.
Truthy(v) ==
    \/ v.t = "object"
    \/ v.t = "string" /\ v.s # ""
    \/ v.t = "number" /\ v.n # 0

Keys(o) == {o.kv[i][1] : i \in 1..Len(o.kv)}

\* o[k]: the member's value, undefined when o has no member k.
Get(o, k) ==
    IF k \in Keys(o)
    THEN o.kv[CHOOSE i \in 1..Len(o.kv) : o.kv[i][1] = k][2]
    ELSE Undefined

\* o[k] = v: an existing member keeps its place, a new one goes last.
Put(o, k, v) ==
    IF k \in Keys(o)
    THEN Obj([i \in 1..Len(o.kv) |-> IF o.kv[i][1] = k THEN <<k, v>> ELSE o.kv[i]])
    ELSE Obj(Append(o.kv, <<k, v>>))

\* {...a, ...b}: a's members, then b's, b's values winning.
RECURSIVE SpreadKv(_, _)
SpreadKv(a, kv) ==
    IF kv = <<>> THEN a
    ELSE SpreadKv(Put(a, kv[1][1], kv[1][2]), Tail(kv))

Spread(a, b) == SpreadKv(a, b.kv)

\* x || y
OrElse(x, y) == IF Truthy(x) THEN x ELSE y

(***************************************************************************)
(* JSON.  JSON.stringify(v) is the text of v: the members of an object in  *)
(* insertion order, those whose value is undefined left out.  The text is  *)
(* kept as the tree it spells; JSON.parse of such a text gives the tree    *)
(* back.                                                                   *)
(***************************************************************************)
IsDefinedMember(m) == m[2] # Undefined

RECURSIVE JSONtree(_)
JSONtree(v) ==
    IF v.t = "object"
    THEN LET kept == SelectSeq(v.kv, IsDefinedMember)
         IN  Obj([i \in 1..Len(kept) |-> <<kept[i][1], JSONtree(kept[i][2])>>])
    ELSE v

JSONstringify(v) == [json |-> JSONtree(v)]

JSONparse(text) == text.json

\* crypto.createHash('md5').update(s).digest('hex'): a digest of the text,
\* taken to be free of collisions on the texts of the model.
md5(text) == [md5 |-> text]

(***************************************************************************)
(* Source texts.  A text typed into a code block is an opaque string; what *)
(* the parser asks of it is tabulated: what JSON.parse makes of it, and,   *)
(* for the lines of a reference block, its trimmed text, whether it holds  *)
(* a colon, and the two sides of its first colon.                          *)
(***************************************************************************)
UrlWeather == "https://x/weather"
UrlGql == "https://x/gql"

\* JSON.parse of a typed text: [ok, value], ok = FALSE for a SyntaxError.
JSONparseText(s) ==
    CASE s = "{\"city\":\"Tokyo\"}" ->
            [ok |-> TRUE, value |-> Obj(<< <<"city", Str("Tokyo")>> >>)]
      [] s = "{\"a\":\"1\",\"b\":\"2\"}" ->
            [ok |-> TRUE, value |-> Obj(<< <<"a", Str("1")>>, <<"b", Str("2")>> >>)]
      [] s = "{\"b\":\"2\",\"a\":\"1\"}" ->
            [ok |-> TRUE, value |-> Obj(<< <<"b", Str("2")>>, <<"a", Str("1")>> >>)]
      [] s = "{\"type\":\"graphql\",\"url\":\"https://x/gql\",\"query\":\"{a}\"}" ->
            [ok |-> TRUE, value |-> Obj(<< <<"type", Str("graphql")>>,
                                          <<"url", Str(UrlGql)>>,
                                          <<"query", Str("{a}")>> >>)]
      [] s = "{\"type\":\"graphql\",\"query\":\"{a}\"}" ->
            [ok |-> TRUE, value |-> Obj(<< <<"type", Str("graphql")>>,
                                          <<"query", Str("{a}")>> >>)]
      [] s = "{\"url\":\"https://x/gql\",\"query\":\"{a}\"}" ->
            [ok |-> TRUE, value |-> Obj(<< <<"url", Str(UrlGql)>>,
                                          <<"query", Str("{a}")>> >>)]
      [] s = "{\"type\":\"graphql\",\"url\":\"https://x/gql\"}" ->
            [ok |-> TRUE, value |-> Obj(<< <<"type", Str("graphql")>>,
                                          <<"url", Str(UrlGql)>> >>)]
      [] s = "{\"type\":\"soap\",\"url\":\"https://x/weather\"}" ->
            [ok |-> TRUE, value |-> Obj(<< <<"type", Str("soap")>>,
                                          <<"url", Str(UrlWeather)>> >>)]
      [] s = "{\"type\":\"rest\",\"url\":\"https://x/weather\",\"method\":\"GET\",\"headers\":{\"Authorization\":\"B\"}}" ->
            [ok |-> TRUE, value |-> Obj(<< <<"type", Str("rest")>>,
                                          <<"url", Str(UrlWeather)>>,
                                          <<"method", Str("GET")>>,
                                          <<"headers", Obj(<< <<"Authorization", Str("B")>> >>)>> >>)]
      [] s = "{\"headers\":{\"Authorization\":\"B\"},\"method\":\"GET\",\"url\":\"https://x/weather\",\"type\":\"rest\"}" ->
            [ok |-> TRUE, value |-> Obj(<< <<"headers", Obj(<< <<"Authorization", Str("B")>> >>)>>,
                                          <<"method", Str("GET")>>,
                                          <<"url", Str(UrlWeather)>>,
                                          <<"type", Str("rest")>> >>)]
      [] s = "{\"type\":\"rest\",\"url\":\"https://x/weather\",\"method\":\"GET\",\"body\":{\"a\":\"1\",\"b\":\"2\"}}" ->
            [ok |-> TRUE, value |-> Obj(<< <<"type", Str("rest")>>,
                                          <<"url", Str(UrlWeather)>>,
                                          <<"method", Str("GET")>>,
                                          <<"body", Obj(<< <<"a", Str("1")>>, <<"b", Str("2")>> >>)>> >>)]
      [] s = "{\"type\":\"rest\",\"url\":\"https://x/weather\",\"method\":\"GET\",\"body\":{\"b\":\"2\",\"a\":\"1\"}}" ->
            [ok |-> TRUE, value |-> Obj(<< <<"type", Str("rest")>>,
                                          <<"url", Str(UrlWeather)>>,
                                          <<"method", Str("GET")>>,
                                          <<"body", Obj(<< <<"b", Str("2")>>, <<"a", Str("1")>> >>)>> >>)]
      [] s = "{\"type\":\"rest\",\"url\":\"https://x/weather\",\"endpoint\":\"weather\"}" ->
            [ok |-> TRUE, value |-> Obj(<< <<"type", Str("rest")>>,
                                          <<"url", Str(UrlWeather)>>,
                                          <<"endpoint", Str("weather")>> >>)]
      [] s = "{\"type\":\"grpc\",\"url\":\"https://x/weather\",\"body\":{\"city\":\"Tokyo\"}}" ->
            [ok |-> TRUE, value |-> Obj(<< <<"type", Str("grpc")>>,
                                          <<"url", Str(UrlWeather)>>,
                                          <<"body", Obj(<< <<"city", Str("Tokyo")>> >>)>> >>)]
      [] s = "{\"type\":\"rpc\",\"url\":\"https://x/weather\",\"query\":\"sum\"}" ->
            [ok |-> TRUE, value |-> Obj(<< <<"type", Str("rpc")>>,
                                          <<"url", Str(UrlWeather)>>,
                                          <<"query", Str("sum")>> >>)]
      [] s = "{\"Authorization\":\"B\"}" ->
            [ok |-> TRUE, value |-> Obj(<< <<"Authorization", Str("B")>> >>)]
      [] s = "{\"X-Trace\":\"1\"}" ->
            [ok |-> TRUE, value |-> Obj(<< <<"X-Trace", Str("1")>> >>)]
      [] s = "{\"type\":\"rest\",\"url\":\"https://x/weather\",\"method\":\"POST\",\"body\":{\"city\":\"Tokyo\"}}" ->
            [ok |-> TRUE, value |-> Obj(<< <<"type", Str("rest")>>,
                                          <<"url", Str(UrlWeather)>>,
                                          <<"method", Str("POST")>>,
                                          <<"body", Obj(<< <<"city", Str("Tokyo")>> >>)>> >>)]
      [] s = "{\"type\":\"rest\",\"url\":\"https://x/weather\",\"method\":\"POST\",\"headers\":{\"Content-Type\":\"text/plain\"},\"body\":{\"city\":\"Tokyo\"}}" ->
            [ok |-> TRUE, value |-> Obj(<< <<"type", Str("rest")>>,
                                          <<"url", Str(UrlWeather)>>,
                                          <<"method", Str("POST")>>,
                                          <<"headers", Obj(<< <<"Content-Type", Str("text/plain")>> >>)>>,
                                          <<"body", Obj(<< <<"city", Str("Tokyo")>> >>)>> >>)]
      [] s = "{\"type\":\"rest\",\"url\":\"https://x/weather\",\"method\":\"POST\",\"headers\":{\"Content-Type\":\"\"},\"body\":{\"city\":\"Tokyo\"}}" ->
            [ok |-> TRUE, value |-> Obj(<< <<"type", Str("rest")>>,
                                          <<"url", Str(UrlWeather)>>,
                                          <<"method", Str("POST")>>,
                                          <<"headers", Obj(<< <<"Content-Type", Str("")>> >>)>>,
                                          <<"body", Obj(<< <<"city", Str("Tokyo")>> >>)>> >>)]
      [] s = "{\"type\":\"graphql\",\"url\":\"https://x/gql\",\"query\":\"{a}\",\"headers\":{\"Content-Type\":\"text/plain\"}}" ->
            [ok |-> TRUE, value |-> Obj(<< <<"type", Str("graphql")>>,
                                          <<"url", Str(UrlGql)>>,
                                          <<"query", Str("{a}")>>,
                                          <<"headers", Obj(<< <<"Content-Type", Str("text/plain")>> >>)>> >>)]
      [] s = "null" -> [ok |-> TRUE, value |-> Null]
      [] OTHER -> [ok |-> FALSE]

\* A line of a reference block, already trimmed: `key: value`, a line with no
\* colon, or an empty line.
KeyLine(key, value) ==
    [text |-> key \o ": " \o value, colon |-> TRUE, key |-> key, value |-> value]
TextLine(text) == [text |-> text, colon |-> FALSE, key |-> "", value |-> ""]
EmptyLine == TextLine("")

\* A block that starts with `@`: the alias of its first line, and the lines after it.
RefSource(alias, lines) == [at |-> TRUE, alias |-> alias, lines |-> lines]
\* Any other block: its text.
DirectSource(text) == [at |-> FALSE, text |-> text]

(***************************************************************************)
(* parseDataQuery                                                          *)
(***************************************************************************)
Thrown(message) == [ok |-> FALSE, message |-> message]
Returned(value) == [ok |-> TRUE, value |-> value]

\* settings.endpoints.find(e => e.alias === alias): the first match, or none.
FindEndpoint(eps, alias) ==
    LET hits == {i \in 1..Len(eps) : eps[i].alias = alias}
    IN  IF hits = {} THEN Undefined
        ELSE eps[CHOOSE i \in hits : \A j \in hits : i <= j]

\* The lines a `query:` at line i absorbs: the value they make and the line
\* the outer loop goes on from.
RECURSIVE QueryContinuation(_, _, _, _)
QueryContinuation(lines, j, value, i) ==
    IF j > Len(lines) THEN [value |-> value, i |-> i]
    ELSE IF lines[j].text # "" /\ ~lines[j].colon
         THEN QueryContinuation(lines, j + 1, value \o "\n" \o lines[j].text, j)
    ELSE IF lines[j].colon THEN [value |-> value, i |-> i]
    ELSE QueryContinuation(lines, j + 1, value, i)

\* The loop over the lines after the alias, from line i on.
RECURSIVE ParseLines(_, _, _)
ParseLines(lines, i, queryParams) ==
    IF i > Len(lines) THEN Returned(queryParams)
    ELSE LET line == lines[i] IN
         IF line.text = "" \/ ~line.colon THEN ParseLines(lines, i + 1, queryParams)
         ELSE LET q == IF line.key = "query" /\ i < Len(lines)
                       THEN QueryContinuation(lines, i + 1, line.value, i)
                       ELSE [value |-> line.value, i |-> i]
              IN  IF line.key = "body"
                  THEN LET parsed == JSONparseText(q.value)
                       IN  ParseLines(lines, q.i + 1,
                               Put(queryParams, "body",
                                   IF parsed.ok THEN parsed.value ELSE Str(q.value)))
                  ELSE IF line.key = "query"
                       THEN ParseLines(lines, q.i + 1, Put(queryParams, "query", Str(q.value)))
                  ELSE IF line.key = "variables"
                       THEN LET parsed == JSONparseText(q.value)
                            IN  IF parsed.ok
                                THEN ParseLines(lines, q.i + 1,
                                         Put(queryParams, "variables", parsed.value))
                                ELSE Thrown("Variables must be valid JSON")
                  ELSE ParseLines(lines, q.i + 1, queryParams)

ParseReference(source, eps) ==
    LET endpoint == FindEndpoint(eps, source.alias)
    IN  IF endpoint = Undefined
        THEN Thrown("Endpoint alias \"" \o source.alias \o "\" not found in settings")
        ELSE ParseLines(source.lines, 1,
                 Obj(<< <<"endpoint", Str(source.alias)>>,
                        <<"type", Str(endpoint.type)>>,
                        <<"url", Str(endpoint.url)>>,
                        <<"method", Str(endpoint.method)>>,
                        <<"headers", Spread(Obj(<<>>), endpoint.headers)>> >>))

ParseDirect(source) ==
    LET parsed == JSONparseText(source.text)
        inner == IF ~parsed.ok THEN Thrown("Unexpected token")
                 ELSE IF parsed.value.t # "object"
                      THEN Thrown("Cannot read properties of null")
                 ELSE IF ~Truthy(Get(parsed.value, "type"))
                      THEN Thrown("Query type is required")
                 ELSE IF ~Truthy(Get(parsed.value, "url"))
                      THEN Thrown("URL is required")
                 ELSE Returned(Spread(Obj(<< <<"endpoint", Str("direct")>> >>), parsed.value))
    IN  IF inner.ok THEN inner
        ELSE Thrown("Invalid query format: " \o inner.message)

parseDataQuery(source, eps) ==
    LET r == IF source.at THEN ParseReference(source, eps) ELSE ParseDirect(source)
    IN  IF r.ok THEN r ELSE Thrown("Failed to parse query: " \o r.message)

(***************************************************************************)
(* CacheManager.generateCacheKey                                           *)
(***************************************************************************)
generateCacheKey(params) ==
    md5(JSONstringify(Obj(<< <<"url", Get(params, "url")>>,
                             <<"type", Get(params, "type")>>,
                             <<"method", Get(params, "method")>>,
                             <<"body", Get(params, "body")>>,
                             <<"query", Get(params, "query")>>,
                             <<"variables", Get(params, "variables")>> >>)))

(***************************************************************************)
(* The transport, requestUrl: it fails with a message, or gives a response *)
(* with a content type, a text, and the value its json getter parses from  *)
(* the text (the getter throws when the text is not JSON).                 *)
(***************************************************************************)
RequestFails == [fails |-> TRUE, message |-> "Request failed, status 500"]
JsonResponse ==
    [fails |-> FALSE, contentType |-> Str("application/json"),
     text |-> Str("{\"temp\":\"21\"}"),
     json |-> Returned(Obj(<< <<"temp", Str("21")>> >>))]
TextResponse ==
    [fails |-> FALSE, contentType |-> Str("text/plain"),
     text |-> Str("sunny"),
     json |-> Thrown("Unexpected token s in JSON at position 0")]

TransportOutcomes == {RequestFails, JsonResponse, TextResponse}

\* contentType.includes('application/json')
IncludesJson(contentType) == contentType.s \in {"application/json"}

\* What an executor did: the value it returned or the message it threw, the
\* requests it handed to the transport, and params as the call left it.
Done(ok, value, sent, params) ==
    [ok |-> ok, value |-> value, sent |-> sent, params |-> params]

ResponseJson(response) == response.json

\* response.json when the content type says JSON, else response.text.
RestPayload(response) ==
    IF Truthy(response.contentType) /\ IncludesJson(response.contentType)
    THEN response.json
    ELSE Returned(response.text)

\* requestUrl called again when it has failed.
RequestRetried(requestParams, outcome, rest, params) ==
    IF outcome.fails
    THEN Done(FALSE, outcome.message, <<requestParams, requestParams>>, params)
    ELSE LET got == IF rest THEN RestPayload(outcome) ELSE ResponseJson(outcome)
         IN  Done(got.ok, IF got.ok THEN got.value ELSE got.message,
                  <<requestParams>>, params)

\* await requestUrl(requestParams), then the read of the response: json for
\* every executor, and for REST json or text by the content type.
Request(requestParams, outcome, rest, params) ==
    IF outcome.fails
    THEN Done(FALSE, outcome.message, <<requestParams>>, params)
    ELSE LET got == IF rest THEN RestPayload(outcome) ELSE ResponseJson(outcome)
         IN  Done(got.ok, IF got.ok THEN got.value ELSE got.message,
                  <<requestParams>>, params)

(***************************************************************************)
(* The executors.  requestParams.headers of executeRestQuery is the        *)
(* params.headers object itself when params has one, so the Content-Type   *)
(* it sets is set on params.headers.                                       *)
(***************************************************************************)
ContentTypeJson == Obj(<< <<"Content-Type", Str("application/json")>> >>)

executeRestQuery(params, outcome) ==
    IF ~Truthy(Get(params, "url"))
    THEN Done(FALSE, "URL is required for REST queries", <<>>, params)
    ELSE LET body == Get(params, "body")
             shared == Truthy(Get(params, "headers"))
             headers == OrElse(Get(params, "headers"), Obj(<<>>))
             inject == /\ Truthy(body)
                       /\ body.t = "object"
                       /\ ~Truthy(Get(headers, "Content-Type"))
             headers2 == IF inject
                         THEN Put(headers, "Content-Type", Str("application/json"))
                         ELSE headers
             requestParams ==
                 [url |-> Get(params, "url"),
                  method |-> OrElse(Get(params, "method"), Str("GET")),
                  headers |-> headers2,
                  body |-> IF ~Truthy(body) THEN Undefined
                           ELSE IF body.t = "object" THEN JSONstringify(body)
                           ELSE body]
             params2 == IF shared /\ inject THEN Put(params, "headers", headers2)
                        ELSE params
         IN  Request(requestParams, outcome, TRUE, params2)

executeGraphQLQuery(params, outcome) ==
    IF ~Truthy(Get(params, "url"))
    THEN Done(FALSE, "URL is required for GraphQL queries", <<>>, params)
    ELSE IF ~Truthy(Get(params, "query"))
    THEN Done(FALSE, "Query is required for GraphQL queries", <<>>, params)
    ELSE Request([url |-> Get(params, "url"),
                  method |-> Str("POST"),
                  headers |-> Spread(ContentTypeJson,
                                     OrElse(Get(params, "headers"), Obj(<<>>))),
                  body |-> JSONstringify(Obj(<<
                      <<"query", Get(params, "query")>>,
                      <<"variables", OrElse(Get(params, "variables"), Obj(<<>>))>> >>))],
                 outcome, FALSE, params)

executeGrpcQuery(params, outcome) ==
    IF ~Truthy(Get(params, "url"))
    THEN Done(FALSE, "URL is required for gRPC queries", <<>>, params)
    ELSE Request([url |-> Get(params, "url"),
                  method |-> Str("POST"),
                  headers |-> Spread(ContentTypeJson,
                                     OrElse(Get(params, "headers"), Obj(<<>>))),
                  body |-> JSONstringify(OrElse(Get(params, "body"), Obj(<<>>)))],
                 outcome, FALSE, params)

executeRpcQuery(params, outcome) ==
    IF ~Truthy(Get(params, "url"))
    THEN Done(FALSE, "URL is required for RPC queries", <<>>, params)
    ELSE Request([url |-> Get(params, "url"),
                  method |-> OrElse(Get(params, "method"), Str("POST")),
                  headers |-> Spread(ContentTypeJson,
                                     OrElse(Get(params, "headers"), Obj(<<>>))),
                  body |-> JSONstringify(Obj(<<
                      <<"jsonrpc", Str("2.0")>>,
                      <<"method", OrElse(Get(params, "query"), Str("method"))>>,
                      <<"params", OrElse(Get(params, "body"), Obj(<<>>))>>,
                      <<"id", Num(1)>> >>))],
                 outcome, FALSE, params)

(***************************************************************************)
(* executeQuery: the switch on params.type, and the catch that turns what  *)
(* an executor throws into a result with an error.  `raised` says whether  *)
(* the call threw to its caller.                                           *)
(***************************************************************************)
Dispatch(params, outcome) ==
    LET type == Get(params, "type")
    IN  IF type = Str("rest") THEN executeRestQuery(params, outcome)
        ELSE IF type = Str("graphql") THEN executeGraphQLQuery(params, outcome)
        ELSE IF type = Str("grpc") THEN executeGrpcQuery(params, outcome)
        ELSE IF type = Str("rpc") THEN executeRpcQuery(params, outcome)
        ELSE Done(FALSE,
                  "Unsupported query type: " \o (IF type.t = "string" THEN type.s ELSE type.t),
                  <<>>, params)

\* executeQuery without its try: what an executor throws reaches the caller.
executeQueryUncaught(params, outcome, clock) ==
    LET d == Dispatch(params, outcome)
    IN  [raised |-> ~d.ok,
         caught |-> FALSE,
         result |-> IF d.ok
                    THEN Obj(<< <<"data", d.value>>, <<"timestamp", Num(clock)>> >>)
                    ELSE Undefined,
         sent |-> d.sent,
         params |-> d.params]

\* executeQuery whose catch leaves the message out of what it returns.
executeQueryErrorDropped(params, outcome, clock) ==
    LET d == Dispatch(params, outcome)
    IN  [raised |-> FALSE,
         caught |-> ~d.ok,
         result |-> IF d.ok
                    THEN Obj(<< <<"data", d.value>>, <<"timestamp", Num(clock)>> >>)
                    ELSE Obj(<< <<"data", Null>>, <<"timestamp", Num(clock)>> >>),
         sent |-> d.sent,
         params |-> d.params]

executeQuery(params, outcome, clock) ==
    LET d == Dispatch(params, outcome)
    IN  [raised |-> FALSE,
         caught |-> ~d.ok,
         result |-> IF d.ok
                    THEN Obj(<< <<"data", d.value>>, <<"timestamp", Num(clock)>> >>)
                    ELSE Obj(<< <<"data", Null>>, <<"timestamp", Num(clock)>>,
                                <<"error", Str(d.value)>> >>),
         sent |-> d.sent,
         params |-> d.params]

(***************************************************************************)
(* CacheManager.  The cache folder is reached in two ways: through the     *)
(* vault's file tree (getAbstractFileByPath, createFolder, read) and       *)
(* through the adapter beneath it (write, list, remove).  The tree is the  *)
(* vault's own record of the files; what the adapter writes or removes     *)
(* shows in it only once the vault has taken the change up.                *)
(***************************************************************************)
MsPerMinute == 60 * 1000

\* cacheAge > cacheDurationMs
IsExpired(clock, timestamp, duration) == clock - timestamp > duration * MsPerMinute

\* getFromCache: `indexed` is the set of entries the vault's tree holds as
\* TFile, `stored` the files under the adapter, readOk whether vault.read
\* succeeds.  Every throw ends in the catch, which returns null.
getFromCache(params, clock, duration, indexed, stored, readOk) ==
    LET cacheKey == generateCacheKey(params)
    IN  IF cacheKey \notin indexed THEN Null
        ELSE IF ~readOk \/ cacheKey \notin DOMAIN stored THEN Null
        ELSE LET cacheData == JSONparse(stored[cacheKey])
             IN  IF IsExpired(clock, Get(cacheData, "timestamp").n, duration)
                 THEN Null
                 ELSE cacheData

\* ensureCacheFolder: whether the folder exists under the adapter afterwards.
\* createFolder throws when the folder exists already or cannot be made; the
\* catch swallows it.
ensureCacheFolder(indexedFolder, folder, createOk) ==
    IF indexedFolder THEN folder
    ELSE IF folder THEN folder
    ELSE createOk

\* Whether that ensureCacheFolder logged 'Failed to create cache folder' for a
\* folder that is not there.
CreateFails(indexedFolder, folder, createOk) ==
    ~indexedFolder /\ ~folder /\ ~createOk

\* saveToCache without its try: a write that fails throws to the caller.
saveToCacheUncaught(params, result, folder, stored, writeOk) ==
    LET cacheKey == generateCacheKey(params)
    IN  IF folder /\ writeOk
        THEN [raised |-> FALSE, wrote |-> TRUE,
              files |-> [k \in DOMAIN stored \cup {cacheKey} |->
                            IF k = cacheKey THEN JSONstringify(result) ELSE stored[k]]]
        ELSE [raised |-> TRUE, wrote |-> FALSE, files |-> stored]

\* saveToCache that leaves an entry it finds under the key as it is.
saveToCacheFirstWins(params, result, folder, stored, writeOk) ==
    LET cacheKey == generateCacheKey(params)
    IN  IF folder /\ writeOk
        THEN [raised |-> FALSE, wrote |-> TRUE,
              files |-> [k \in DOMAIN stored \cup {cacheKey} |->
                            IF k \in DOMAIN stored THEN stored[k]
                            ELSE JSONstringify(result)]]
        ELSE [raised |-> FALSE, wrote |-> FALSE, files |-> stored]

\* adapter.write(cacheFilePath, JSON.stringify(result)) inside saveToCache's
\* try: [raised, files].  The write throws when the folder is missing or the
\* storage fails; the catch swallows it.
saveToCache(params, result, folder, stored, writeOk) ==
    LET cacheKey == generateCacheKey(params)
    IN  IF folder /\ writeOk
        THEN [raised |-> FALSE, wrote |-> TRUE,
              files |-> [k \in DOMAIN stored \cup {cacheKey} |->
                            IF k = cacheKey THEN JSONstringify(result) ELSE stored[k]]]
        ELSE [raised |-> FALSE, wrote |-> FALSE, files |-> stored]

\* stat.size of a cache file: the length of the text JSON.stringify wrote,
\* counted over the tree of the text (two for the brackets of an object, one
\* for a key, one for a value that is not an object).
RECURSIVE TreeLength(_)
TreeLength(tree) ==
    IF tree.t = "object"
    THEN LET RECURSIVE Members(_)
             Members(i) == IF i = 0 THEN 0
                           ELSE 1 + TreeLength(tree.kv[i][2]) + Members(i - 1)
         IN  2 + Members(Len(tree.kv))
    ELSE 1

ByteLength(text) == TreeLength(text.json)

RECURSIVE TotalSize(_, _)
TotalSize(stored, names) ==
    IF names = {} THEN 0
    ELSE LET name == CHOOSE n \in names : TRUE
         IN  ByteLength(stored[name]) + TotalSize(stored, names \ {name})

\* getCacheInfo after its ensureCacheFolder: adapter.list and the loop of
\* adapter.stat.  A throw of either ends in the catch, which returns zeros.
getCacheInfo(folder, stored, listOk, statOk) ==
    IF folder /\ listOk /\ statOk
    THEN [count |-> Cardinality(DOMAIN stored),
          size |-> TotalSize(stored, DOMAIN stored)]
    ELSE [count |-> 0, size |-> 0]

(***************************************************************************)
(* renderResult: what the block shows.                                     *)
(***************************************************************************)
renderResult(result) ==
    IF Truthy(Get(result, "error"))
    THEN [cls |-> "data-fetcher-error", shown |-> Get(result, "error")]
    ELSE [cls |-> "data-fetcher-result", shown |-> result]

(***************************************************************************)
(* Bounds and inputs.                                                      *)
(***************************************************************************)
\* Renders of one data-query block.
MaxRenders == 2
\* Endpoints the settings can hold.
MaxEndpoints == 2
\* Uses of the Clear cache button.
MaxClears == 1
\* Times the settings tab is opened.
MaxDisplays == 1

\* DEFAULT_SETTINGS.cacheDuration
DefaultCacheDuration == 60

\* Values typed into the Cache duration field.
Durations == {DefaultCacheDuration, 2 * DefaultCacheDuration}

\* The instants the clock is read at: the start, an hour on, and sixty-one
\* minutes on.
Instants == {0, 60 * MsPerMinute, 61 * MsPerMinute}

\* The data-query blocks on screen.
Handlers == {"h1", "h2"}

WeatherEndpoint ==
    [alias |-> "weather", url |-> UrlWeather, method |-> "GET", type |-> "rest",
     headers |-> Obj(<< <<"Authorization", Str("A")>> >>)]

\* The endpoint the Add endpoint button pushes.
NewEndpoint ==
    [alias |-> "", url |-> "", method |-> "GET", type |-> "rest",
     headers |-> Obj(<<>>)]

\* Three blocks that parse and fetch; the first two differ in their headers
\* and in where they come from, and in nothing else.
CachedSources ==
    { RefSource("weather", <<>>),
      DirectSource("{\"type\":\"rest\",\"url\":\"https://x/weather\",\"method\":\"GET\",\"headers\":{\"Authorization\":\"B\"}}"),
      DirectSource("{\"type\":\"graphql\",\"url\":\"https://x/gql\",\"query\":\"{a}\"}") }

\* Two blocks that are kept under two fingerprints.
FrameSources ==
    { RefSource("weather", <<>>),
      DirectSource("{\"type\":\"graphql\",\"url\":\"https://x/gql\",\"query\":\"{a}\"}") }

\* Two blocks of one fingerprint: they differ in their headers and in where
\* they come from.
RaceSources ==
    { RefSource("weather", <<>>),
      DirectSource("{\"type\":\"rest\",\"url\":\"https://x/weather\",\"method\":\"GET\",\"headers\":{\"Authorization\":\"B\"}}") }

\* Blocks that say one thing in different orders of their fields and of the
\* keys of their body.
KeySources ==
    { RefSource("weather", <<KeyLine("body", "{\"a\":\"1\",\"b\":\"2\"}")>>),
      RefSource("weather", <<KeyLine("body", "{\"b\":\"2\",\"a\":\"1\"}")>>),
      DirectSource("{\"type\":\"rest\",\"url\":\"https://x/weather\",\"method\":\"GET\",\"headers\":{\"Authorization\":\"B\"}}"),
      DirectSource("{\"headers\":{\"Authorization\":\"B\"},\"method\":\"GET\",\"url\":\"https://x/weather\",\"type\":\"rest\"}"),
      DirectSource("{\"type\":\"rest\",\"url\":\"https://x/weather\",\"method\":\"GET\",\"body\":{\"a\":\"1\",\"b\":\"2\"}}"),
      DirectSource("{\"type\":\"rest\",\"url\":\"https://x/weather\",\"method\":\"GET\",\"body\":{\"b\":\"2\",\"a\":\"1\"}}") }

\* Blocks for the parser: reference blocks that give headers of their own,
\* and direct blocks that are objects with and without `type` and `url`, one
\* with an `endpoint` field, and texts that are no object.
ParseSources ==
    { RefSource("weather", <<>>),
      RefSource("weather", <<KeyLine("headers", "{\"Authorization\":\"B\"}")>>),
      RefSource("weather", <<KeyLine("headers", "{\"X-Trace\":\"1\"}"),
                             KeyLine("body", "{\"city\":\"Tokyo\"}")>>),
      RefSource("", <<KeyLine("headers", "{\"X-Trace\":\"1\"}")>>),
      DirectSource("{\"type\":\"graphql\",\"url\":\"https://x/gql\",\"query\":\"{a}\"}"),
      DirectSource("{\"type\":\"graphql\",\"query\":\"{a}\"}"),
      DirectSource("{\"url\":\"https://x/gql\",\"query\":\"{a}\"}"),
      DirectSource("{\"type\":\"rest\",\"url\":\"https://x/weather\",\"endpoint\":\"weather\"}"),
      DirectSource("{\"type\":\"soap\",\"url\":\"https://x/weather\"}"),
      DirectSource("{type: graphql"),
      DirectSource("null") }

\* One block, rendered in two places of a note.
StaleSources == { RefSource("weather", <<>>) }

\* Blocks for the request headers: with and without a Content-Type of their
\* own, with a structured body, a raw-string body and no body, over the four
\* protocols.
HeaderSources ==
    { RefSource("weather", <<>>),
      RefSource("weather", <<KeyLine("body", "city=Tokyo")>>),
      DirectSource("{\"type\":\"rest\",\"url\":\"https://x/weather\",\"method\":\"POST\",\"body\":{\"city\":\"Tokyo\"}}"),
      DirectSource("{\"type\":\"rest\",\"url\":\"https://x/weather\",\"method\":\"POST\",\"headers\":{\"Content-Type\":\"text/plain\"},\"body\":{\"city\":\"Tokyo\"}}"),
      DirectSource("{\"type\":\"rest\",\"url\":\"https://x/weather\",\"method\":\"POST\",\"headers\":{\"Content-Type\":\"\"},\"body\":{\"city\":\"Tokyo\"}}"),
      DirectSource("{\"type\":\"graphql\",\"url\":\"https://x/gql\",\"query\":\"{a}\"}"),
      DirectSource("{\"type\":\"graphql\",\"url\":\"https://x/gql\",\"query\":\"{a}\",\"headers\":{\"Content-Type\":\"text/plain\"}}"),
      DirectSource("{\"type\":\"grpc\",\"url\":\"https://x/weather\",\"body\":{\"city\":\"Tokyo\"}}"),
      DirectSource("{\"type\":\"rpc\",\"url\":\"https://x/weather\",\"query\":\"sum\"}") }

\* The blocks a note can hold.
BlockSources ==
    { RefSource("weather", <<>>),
      RefSource("weather", <<KeyLine("body", "{\"city\":\"Tokyo\"}")>>),
      DirectSource("{\"type\":\"graphql\",\"url\":\"https://x/gql\",\"query\":\"{a}\"}"),
      DirectSource("{\"type\":\"graphql\",\"url\":\"https://x/gql\"}"),
      DirectSource("{\"type\":\"soap\",\"url\":\"https://x/weather\"}"),
      DirectSource("{\"type\":\"grpc\",\"url\":\"https://x/weather\",\"body\":{\"city\":\"Tokyo\"}}"),
      DirectSource("{\"type\":\"rpc\",\"url\":\"https://x/weather\",\"query\":\"sum\"}"),
      RefSource("", <<>>),
      RefSource("nope", <<>>),
      RefSource("weather", <<KeyLine("variables", "{city")>>),
      DirectSource("{\"type\":\"graphql\",\"query\":\"{a}\"}"),
      DirectSource("{\"url\":\"https://x/gql\",\"query\":\"{a}\"}"),
      DirectSource("{type: graphql") }

(***************************************************************************)
(* State.                                                                  *)
(***************************************************************************)
VARIABLES
    now,            \* Date.now()
    cacheDuration,  \* settings.cacheDuration, in minutes
    endpoints,      \* settings.endpoints
    folder,         \* the cache folder exists under the adapter
    files,          \* the files of the cache folder under the adapter: key -> text
    vaultFolder,    \* the vault's tree holds the cache folder as a TFolder
    vaultFiles,     \* the entries the vault's tree holds as TFile
    ctor,           \* the ensureCacheFolder the constructor started and did not await
    hs,             \* the code block processor's calls, one per render
    clr,            \* the Clear cache button's handler
    lastStore,      \* history: per key, the last saveToCache that wrote since
                    \* the last clearAllCache: its params and its result
    entryCaught     \* history: per file, whether executeQuery built its
                    \* result in its catch

vars == <<now, cacheDuration, endpoints, folder, files, vaultFolder, vaultFiles,
          ctor, hs, clr, lastStore, entryCaught>>

EmptyMap == [k \in {} |-> Undefined]

NoView == [cls |-> "none", shown |-> Undefined]

IdleHandler ==
    [pc |-> "idle", runs |-> 0, source |-> Undefined, query |-> Undefined, parsed |-> Undefined,
     cachedResult |-> Undefined, cachedCaught |-> FALSE, outcome |-> Undefined, result |-> Undefined,
     caught |-> FALSE, sent |-> <<>>, ensureFailed |-> FALSE,
     stores |-> <<>>, view |-> NoView, trace |-> <<>>]

\* updateCacheInfo: where it is, what started it, and what getCacheInfo gave.
IdleInfo ==
    [pc |-> "idle", runs |-> 0, by |-> "none", ensureFailed |-> FALSE,
     cacheInfo |-> Undefined]

IdleClear ==
    [pc |-> "idle", runs |-> 0, listed |-> {}, todo |-> {}, removed |-> {},
     failed |-> {}, log |-> <<>>, storedDuring |-> {}, deletedCount |-> 0, reported |-> Undefined,
     remaining |-> {}, notice |-> "none", ensureFailed |-> FALSE,
     storedAfter |-> {}, info |-> IdleInfo]

Init ==
    /\ now = 0
    /\ cacheDuration = DefaultCacheDuration
    /\ endpoints = <<WeatherEndpoint>>
    /\ folder = FALSE
    /\ files = EmptyMap
    /\ vaultFolder = FALSE
    /\ vaultFiles = {}
    /\ ctor = "pending"
    /\ hs = [h \in Handlers |-> IdleHandler]
    /\ clr = IdleClear
    /\ lastStore = EmptyMap
    /\ entryCaught = EmptyMap

(***************************************************************************)
(* The data-query code block processor.                                    *)
(***************************************************************************)
\* The callback with parseDataQuery's throw not caught before the lookup: the
\* handler goes on with an empty descriptor.
ProcessBlockUncaught(h, sources) ==
    /\ hs[h].pc \in {"idle", "done"}
    /\ hs[h].runs < MaxRenders
    /\ \E source \in sources :
          LET p == parseDataQuery(source, endpoints)
              fresh == [IdleHandler EXCEPT !.runs = hs[h].runs + 1,
                                           !.source = source, !.parsed = p,
                                           !.trace = <<"parse">>]
          IN  hs' = [hs EXCEPT ![h] =
                  [fresh EXCEPT !.pc = "lookup",
                                !.query = IF p.ok THEN p.value ELSE Obj(<<>>)]]
    /\ UNCHANGED <<now, cacheDuration, endpoints, folder, files, vaultFolder,
                   vaultFiles, ctor, clr, lastStore, entryCaught>>

\* The callback up to its first await: parseDataQuery, and on a throw the catch.
ProcessBlock(h, sources) ==
    /\ hs[h].pc \in {"idle", "done"}
    /\ hs[h].runs < MaxRenders
    /\ \E source \in sources :
          LET p == parseDataQuery(source, endpoints)
              fresh == [IdleHandler EXCEPT !.runs = hs[h].runs + 1,
                                           !.source = source, !.parsed = p,
                                           !.trace = <<"parse">>]
          IN  hs' = [hs EXCEPT ![h] =
                  IF p.ok
                  THEN [fresh EXCEPT !.pc = "lookup", !.query = p.value]
                  ELSE [fresh EXCEPT !.pc = "done", !.trace = <<"parse", "catch">>,
                                 !.view = [cls |-> "data-fetcher-error",
                                           shown |-> Str("Error: " \o p.message)]]]
    /\ UNCHANGED <<now, cacheDuration, endpoints, folder, files, vaultFolder,
                   vaultFiles, ctor, clr, lastStore, entryCaught>>

\* The callback fetching whatever getFromCache returns.
GetFromCacheUnused(h) ==
    /\ hs[h].pc = "lookup"
    /\ \E readOk \in BOOLEAN :
          LET cachedResult == getFromCache(hs[h].query, now, cacheDuration,
                                           vaultFiles, files, readOk)
              cacheKey == generateCacheKey(hs[h].query)
          IN  hs' = [hs EXCEPT ![h] =
                  [@ EXCEPT !.pc = "fetch", !.cachedResult = cachedResult,
                            !.cachedCaught = IF Truthy(cachedResult)
                                             THEN entryCaught[cacheKey] ELSE FALSE,
                            !.view = [cls |-> "data-fetcher-loading",
                                      shown |-> Str("Fetching data...")],
                            !.trace = @ \o <<"lookup">>]]
    /\ UNCHANGED <<now, cacheDuration, endpoints, folder, files, vaultFolder,
                   vaultFiles, ctor, clr, lastStore, entryCaught>>

\* The callback with a getFromCache that removes the entry it finds expired.
GetFromCacheEvicting(h) ==
    /\ hs[h].pc = "lookup"
    /\ \E readOk \in BOOLEAN :
          LET cachedResult == getFromCache(hs[h].query, now, cacheDuration,
                                           vaultFiles, files, readOk)
              cacheKey == generateCacheKey(hs[h].query)
              found == readOk /\ cacheKey \in vaultFiles /\ cacheKey \in DOMAIN files
          IN  /\ hs' = [hs EXCEPT ![h] =
                     IF Truthy(cachedResult)
                     THEN [@ EXCEPT !.pc = "done", !.cachedResult = cachedResult,
                                    !.cachedCaught = entryCaught[cacheKey],
                                    !.view = renderResult(cachedResult),
                                    !.trace = @ \o <<"lookup", "render">>]
                     ELSE [@ EXCEPT !.pc = "fetch", !.cachedResult = cachedResult,
                                    !.view = [cls |-> "data-fetcher-loading",
                                              shown |-> Str("Fetching data...")],
                                    !.trace = @ \o <<"lookup">>]]
              /\ files' = IF found /\ cachedResult = Null
                          THEN [k \in DOMAIN files \ {cacheKey} |-> files[k]]
                          ELSE files
              /\ entryCaught' = [k \in DOMAIN files' |-> entryCaught[k]]
    /\ UNCHANGED <<now, cacheDuration, endpoints, folder, vaultFolder,
                   vaultFiles, ctor, clr, lastStore>>

\* await this.cacheManager.getFromCache(query), and the branch on what it returns.
GetFromCache(h) ==
    /\ hs[h].pc = "lookup"
    /\ \E readOk \in BOOLEAN :
          LET cachedResult == getFromCache(hs[h].query, now, cacheDuration,
                                           vaultFiles, files, readOk)
              cacheKey == generateCacheKey(hs[h].query)
          IN  hs' = [hs EXCEPT ![h] =
                  IF Truthy(cachedResult)
                  THEN [@ EXCEPT !.pc = "done", !.cachedResult = cachedResult,
                                 !.cachedCaught = entryCaught[cacheKey],
                                 !.view = renderResult(cachedResult),
                                 !.trace = @ \o <<"lookup", "render">>]
                  ELSE [@ EXCEPT !.pc = "fetch", !.cachedResult = cachedResult,
                                 !.view = [cls |-> "data-fetcher-loading",
                                           shown |-> Str("Fetching data...")],
                                 !.trace = @ \o <<"lookup">>]]
    /\ UNCHANGED <<now, cacheDuration, endpoints, folder, files, vaultFolder,
                   vaultFiles, ctor, clr, lastStore, entryCaught>>

\* await executeQuery(query): the transport answers and the result is built.
ExecuteQuery(h, outcomes) ==
    /\ hs[h].pc = "fetch"
    /\ \E outcome \in outcomes :
          LET e == executeQuery(hs[h].query, outcome, now)
          IN  hs' = [hs EXCEPT ![h] =
                  IF e.raised
                  THEN [@ EXCEPT !.pc = "done", !.query = e.params,
                                 !.outcome = outcome,
                                 !.sent = @ \o e.sent,
                                 !.trace = @ \o <<"execute", "catch">>,
                                 !.view = [cls |-> "data-fetcher-error",
                                           shown |-> Str("Error: execute")]]
                  ELSE [@ EXCEPT !.pc = "ensure", !.query = e.params,
                                 !.outcome = outcome,
                                 !.result = e.result, !.caught = e.caught,
                                 !.sent = @ \o e.sent,
                                 !.trace = @ \o <<"execute">>]]
    /\ UNCHANGED <<now, cacheDuration, endpoints, folder, files, vaultFolder,
                   vaultFiles, ctor, clr, lastStore, entryCaught>>

\* saveToCache going on to its write with its ensureCacheFolder not awaited.
SaveEnsureUnawaited(h) ==
    /\ hs[h].pc = "ensure"
    /\ hs' = [hs EXCEPT ![h].pc = "write"]
    /\ UNCHANGED <<now, cacheDuration, endpoints, folder, files, vaultFolder,
                   vaultFiles, ctor, clr, lastStore, entryCaught>>

\* saveToCache, its await this.ensureCacheFolder().
SaveEnsure(h) ==
    /\ hs[h].pc = "ensure"
    /\ \E createOk \in BOOLEAN :
          /\ folder' = ensureCacheFolder(vaultFolder, folder, createOk)
          /\ hs' = [hs EXCEPT ![h].pc = "write",
                              ![h].ensureFailed =
                                  CreateFails(vaultFolder, folder, createOk)]
    /\ UNCHANGED <<now, cacheDuration, endpoints, files, vaultFolder, vaultFiles,
                   ctor, clr, lastStore, entryCaught>>

\* The store step of a handler whose store raises with nothing to catch it:
\* the callback ends there and the loading text stays.
SaveWriteAbandoned(h) ==
    /\ hs[h].pc = "write"
    /\ \E writeOk \in BOOLEAN :
          LET w == saveToCache(hs[h].query, hs[h].result, folder, files, writeOk)
          IN  /\ files' = w.files
              /\ hs' = [hs EXCEPT ![h] =
                     [@ EXCEPT !.pc = "done",
                               !.stores = Append(@, [key |-> generateCacheKey(hs[h].query),
                                                     result |-> hs[h].result,
                                                     wrote |-> w.wrote]),
                               !.trace = @ \o <<"store">>,
                               !.view = IF w.wrote THEN renderResult(hs[h].result)
                                        ELSE @]]
    /\ UNCHANGED <<now, cacheDuration, endpoints, folder, vaultFolder, vaultFiles,
                   ctor, clr, lastStore, entryCaught>>

\* saveToCache, its await adapter.write(...); then el.empty() and renderResult.
SaveWrite(h) ==
    /\ hs[h].pc = "write"
    /\ \E writeOk \in BOOLEAN :
          LET w == saveToCache(hs[h].query, hs[h].result, folder, files, writeOk)
              cacheKey == generateCacheKey(hs[h].query)
          IN  /\ files' = w.files
              /\ hs' = [hs EXCEPT ![h] =
                     [@ EXCEPT !.pc = "done",
                               !.stores = Append(@, [key |-> cacheKey,
                                                     result |-> hs[h].result,
                                                     wrote |-> w.wrote]),
                               !.trace = IF w.raised THEN @ \o <<"store", "catch">>
                                         ELSE @ \o <<"store", "render">>,
                               !.view = IF w.raised
                                        THEN [cls |-> "data-fetcher-error",
                                              shown |-> Str("Error: write")]
                                        ELSE renderResult(hs[h].result)]]
              /\ lastStore' = IF w.wrote
                              THEN [k \in DOMAIN lastStore \cup {cacheKey} |->
                                       IF k = cacheKey
                                       THEN [params |-> hs[h].query,
                                             result |-> hs[h].result,
                                             by |-> hs[h].trace[1]]
                                       ELSE lastStore[k]]
                              ELSE lastStore
              /\ entryCaught' = IF w.wrote
                                THEN [k \in DOMAIN entryCaught \cup {cacheKey} |->
                                         IF k = cacheKey THEN hs[h].caught
                                         ELSE entryCaught[k]]
                                ELSE entryCaught
              /\ clr' = IF clr.pc = "remove" /\ w.wrote
                        THEN [clr EXCEPT !.storedDuring = @ \cup {cacheKey}]
                        ELSE IF clr.pc = "done" /\ w.wrote
                        THEN [clr EXCEPT !.storedAfter = @ \cup {cacheKey}]
                        ELSE clr
    /\ UNCHANGED <<now, cacheDuration, endpoints, folder, vaultFolder, vaultFiles, ctor>>

(***************************************************************************)
(* The constructor's ensureCacheFolder, which nothing awaits.  It looked   *)
(* the folder up in the vault's tree when the plugin loaded, found none,   *)
(* and its createFolder is under way.                                      *)
(***************************************************************************)
CtorEnsure ==
    /\ ctor = "pending"
    /\ \E createOk \in BOOLEAN :
          folder' = ensureCacheFolder(FALSE, folder, createOk)
    /\ ctor' = "done"
    /\ UNCHANGED <<now, cacheDuration, endpoints, files, vaultFolder, vaultFiles,
                   hs, clr, lastStore, entryCaught>>

(***************************************************************************)
(* The Clear cache button: clearAllCache and the notice.                   *)
(***************************************************************************)
\* The end of clearAllCache's try: the count is logged and the caller, told
\* nothing went wrong, puts up its notice and starts updateCacheInfo.
ClearReturned(c, stored) ==
    [c EXCEPT !.pc = "done", !.reported = Num(c.deletedCount),
              !.remaining = DOMAIN stored,
              !.notice = "Cache cleared successfully",
              !.info = [IdleInfo EXCEPT !.pc = "ensure", !.by = "clear",
                                        !.runs = c.info.runs]]

\* adapter.list(this.cacheFolder): [clr, lastStore].  It throws when the folder
\* is missing or the storage fails, and clearAllCache throws it on.
ClearListed(c, hasFolder, stored, listOk) ==
    IF hasFolder /\ listOk
    THEN LET c2 == [c EXCEPT !.pc = "remove", !.listed = DOMAIN stored,
                             !.todo = DOMAIN stored]
         IN  IF DOMAIN stored = {} THEN ClearReturned(c2, stored) ELSE c2
    ELSE [c EXCEPT !.pc = "raised", !.notice = "Failed to clear cache"]

\* The loop over files.files with no try around the remove: the first delete
\* that fails ends the loop.
ClearRemovedUntilFailure(c, file, stored, removeOk) ==
    LET gone == removeOk /\ file \in DOMAIN stored
        stored2 == IF gone
                   THEN [k \in DOMAIN stored \ {file} |-> stored[k]]
                   ELSE stored
        c2 == [c EXCEPT !.todo = @ \ {file},
                        !.removed = IF gone THEN @ \cup {file} ELSE @,
                        !.failed = IF gone THEN @ ELSE @ \cup {file},
                        !.log = Append(@, [file |-> file, ok |-> gone]),
                        !.deletedCount = IF gone THEN @ + 1 ELSE @]
    IN  [clr |-> IF c2.todo = {} \/ ~gone THEN ClearReturned(c2, stored2) ELSE c2,
         files |-> stored2]

\* One turn of the loop over files.files, for the file `file`: [clr, files].
ClearRemoved(c, file, stored, removeOk) ==
    LET gone == removeOk /\ file \in DOMAIN stored
        stored2 == IF gone
                   THEN [k \in DOMAIN stored \ {file} |-> stored[k]]
                   ELSE stored
        c2 == [c EXCEPT !.todo = @ \ {file},
                        !.removed = IF gone THEN @ \cup {file} ELSE @,
                        !.failed = IF gone THEN @ ELSE @ \cup {file},
                        !.log = Append(@, [file |-> file, ok |-> gone]),
                        !.deletedCount = IF gone THEN @ + 1 ELSE @]
    IN  [clr |-> IF c2.todo = {} THEN ClearReturned(c2, stored2) ELSE c2,
         files |-> stored2]

ClearEnsure ==
    /\ clr.pc \in {"idle", "done", "raised"}
    /\ clr.runs < MaxClears
    /\ clr.info.pc \in {"idle", "done"}
    /\ \E createOk \in BOOLEAN :
          /\ folder' = ensureCacheFolder(vaultFolder, folder, createOk)
          /\ clr' = [IdleClear EXCEPT !.pc = "list", !.runs = clr.runs + 1,
                                      !.info = clr.info,
                                      !.ensureFailed =
                                          CreateFails(vaultFolder, folder, createOk)]
    /\ lastStore' = EmptyMap
    /\ UNCHANGED <<now, cacheDuration, endpoints, files, vaultFolder, vaultFiles,
                   ctor, hs, entryCaught>>

ClearList ==
    /\ clr.pc = "list"
    /\ \E listOk \in BOOLEAN : clr' = ClearListed(clr, folder, files, listOk)
    /\ UNCHANGED <<now, cacheDuration, endpoints, folder, files, vaultFolder,
                   vaultFiles, ctor, hs, lastStore, entryCaught>>

ClearRemove ==
    /\ clr.pc = "remove"
    /\ \E file \in clr.todo, removeOk \in BOOLEAN :
          LET r == ClearRemoved(clr, file, files, removeOk)
          IN  /\ clr' = r.clr
              /\ files' = r.files
              /\ lastStore' = [k \in DOMAIN lastStore \ {file} |-> lastStore[k]]
              /\ entryCaught' = [k \in DOMAIN r.files |-> entryCaught[k]]
    /\ UNCHANGED <<now, cacheDuration, endpoints, folder, vaultFolder, vaultFiles,
                   ctor, hs>>

(***************************************************************************)
(* updateCacheInfo: the settings tab starts it when it is displayed and    *)
(* after a clear that did not throw, and awaits neither.  One is under way *)
(* at a time.                                                              *)
(***************************************************************************)
Display ==
    /\ clr.pc \in {"idle", "done", "raised"}
    /\ clr.info.pc \in {"idle", "done"}
    /\ clr.info.runs < MaxDisplays
    /\ clr' = [clr EXCEPT !.info = [IdleInfo EXCEPT !.pc = "ensure",
                                                    !.by = "display",
                                                    !.runs = clr.info.runs + 1]]
    /\ UNCHANGED <<now, cacheDuration, endpoints, folder, files, vaultFolder,
                   vaultFiles, ctor, hs, lastStore, entryCaught>>

\* getCacheInfo, its await this.ensureCacheFolder().
InfoEnsure ==
    /\ clr.info.pc = "ensure"
    /\ \E createOk \in BOOLEAN :
          /\ folder' = ensureCacheFolder(vaultFolder, folder, createOk)
          /\ clr' = [clr EXCEPT !.info.pc = "list",
                                !.info.ensureFailed =
                                    CreateFails(vaultFolder, folder, createOk)]
    /\ UNCHANGED <<now, cacheDuration, endpoints, files, vaultFolder, vaultFiles,
                   ctor, hs, lastStore, entryCaught>>

\* getCacheInfo, its list and stats, and the line updateCacheInfo writes.
InfoList ==
    /\ clr.info.pc = "list"
    /\ \E listOk \in BOOLEAN, statOk \in BOOLEAN :
          clr' = [clr EXCEPT !.info.pc = "done",
                             !.info.cacheInfo =
                                 getCacheInfo(folder, files, listOk, statOk)]
    /\ UNCHANGED <<now, cacheDuration, endpoints, folder, files, vaultFolder,
                   vaultFiles, ctor, hs, lastStore, entryCaught>>

(***************************************************************************)
(* The Refresh button of a rendered result: the click handler up to its    *)
(* first await.  The button is there only under a result that was shown,   *)
(* and queryButtonMap gives it the query object the render was made with.  *)
(***************************************************************************)
Refresh(h) ==
    /\ hs[h].pc = "done"
    /\ hs[h].view.cls = "data-fetcher-result"
    /\ hs[h].runs < MaxRenders
    /\ hs' = [hs EXCEPT ![h] =
           [IdleHandler EXCEPT !.pc = "fetch", !.runs = hs[h].runs + 1,
                               !.source = hs[h].source, !.parsed = hs[h].parsed,
                               !.query = hs[h].query,
                               !.view = [cls |-> "data-fetcher-loading",
                                         shown |-> Str("Refreshing data...")],
                               !.trace = <<"refresh">>]]
    /\ UNCHANGED <<now, cacheDuration, endpoints, folder, files, vaultFolder,
                   vaultFiles, ctor, clr, lastStore, entryCaught>>

(***************************************************************************)
(* The surroundings: the clock, the vault taking up what the adapter did,  *)
(* and the settings tab.                                                   *)
(***************************************************************************)
Tick ==
    /\ \E t \in Instants :
          /\ t > now
          /\ now' = t
    /\ UNCHANGED <<cacheDuration, endpoints, folder, files, vaultFolder, vaultFiles,
                   ctor, hs, clr, lastStore, entryCaught>>

VaultReconcile ==
    /\ vaultFolder # folder \/ vaultFiles # DOMAIN files
    /\ vaultFolder' = folder
    /\ vaultFiles' = DOMAIN files
    /\ UNCHANGED <<now, cacheDuration, endpoints, folder, files, ctor, hs, clr,
                   lastStore, entryCaught>>

\* onChange of the Cache duration field: parseInt(value) || 60.
SetCacheDuration ==
    /\ \E d \in Durations \ {cacheDuration} : cacheDuration' = d
    /\ UNCHANGED <<now, endpoints, folder, files, vaultFolder, vaultFiles, ctor,
                   hs, clr, lastStore, entryCaught>>

\* The Add endpoint button.
AddEndpoint ==
    /\ Len(endpoints) < MaxEndpoints
    /\ endpoints' = Append(endpoints, NewEndpoint)
    /\ UNCHANGED <<now, cacheDuration, folder, files, vaultFolder, vaultFiles, ctor,
                   hs, clr, lastStore, entryCaught>>

(***************************************************************************)
(* Specifications.                                                         *)
(***************************************************************************)
\* One block rendered again and again, while the clock runs, the vault takes
\* up the adapter's writes and the cache duration is changed.
Next ==
    \/ ProcessBlock("h1", CachedSources)
    \/ GetFromCache("h1")
    \/ ExecuteQuery("h1", {RequestFails, JsonResponse})
    \/ SaveEnsure("h1")
    \/ SaveWrite("h1")
    \/ CtorEnsure
    \/ Tick
    \/ VaultReconcile
    \/ SetCacheDuration

Spec == Init /\ [][Next]_vars

\* One block rendered again and again while the Clear cache button is used.
NextClear ==
    \/ ProcessBlock("h1", FrameSources)
    \/ GetFromCache("h1")
    \/ ExecuteQuery("h1", {JsonResponse})
    \/ SaveEnsure("h1")
    \/ SaveWrite("h1")
    \/ CtorEnsure
    \/ ClearEnsure
    \/ ClearList
    \/ ClearRemove
    \/ Display
    \/ InfoEnsure
    \/ InfoList
    \/ VaultReconcile

SpecClear == Init /\ [][NextClear]_vars

\* Every block a note can hold, every answer of the transport, and the
\* settings tab adding an endpoint.
NextPipeline ==
    \/ ProcessBlock("h1", BlockSources)
    \/ GetFromCache("h1")
    \/ ExecuteQuery("h1", TransportOutcomes)
    \/ SaveEnsure("h1")
    \/ SaveWrite("h1")
    \/ CtorEnsure
    \/ VaultReconcile
    \/ AddEndpoint

SpecPipeline == Init /\ [][NextPipeline]_vars

\* Two blocks parsed and looked up, for the keys they are cached under.
NextKey ==
    \/ ProcessBlock("h1", KeySources)
    \/ ProcessBlock("h2", KeySources)
    \/ GetFromCache("h1")
    \/ GetFromCache("h2")

SpecKey == Init /\ [][NextKey]_vars

\* One block rendered again and again while the clock runs, the settings tab
\* is opened and the cache is cleared.
NextFrame ==
    \/ ProcessBlock("h1", FrameSources)
    \/ GetFromCache("h1")
    \/ ExecuteQuery("h1", {JsonResponse})
    \/ SaveEnsure("h1")
    \/ SaveWrite("h1")
    \/ ClearEnsure
    \/ ClearList
    \/ ClearRemove
    \/ InfoEnsure
    \/ InfoList
    \/ Tick
    \/ VaultReconcile

SpecFrame == Init /\ [][NextFrame]_vars

\* Two blocks of one fingerprint on screen, rendered and refreshed side by
\* side.
NextRace ==
    \/ \E h \in Handlers :
          \/ ProcessBlock(h, RaceSources)
          \/ GetFromCache(h)
          \/ ExecuteQuery(h, {RequestFails, JsonResponse})
          \/ SaveEnsure(h)
          \/ SaveWrite(h)
          \/ Refresh(h)
    \/ VaultReconcile

SpecRace == Init /\ [][NextRace]_vars

\* The parser alone: two blocks parsed again and again while the settings
\* tab adds an endpoint.
NextParse ==
    \/ \E h \in Handlers : ProcessBlock(h, ParseSources)
    \/ AddEndpoint

SpecParse == Init /\ [][NextParse]_vars

\* One block of each protocol fetched, for the request each executor sends.
NextHeaders ==
    \/ ProcessBlock("h1", HeaderSources)
    \/ GetFromCache("h1")
    \/ ExecuteQuery("h1", {JsonResponse})
    \/ SaveEnsure("h1")
    \/ SaveWrite("h1")
    \/ VaultReconcile

SpecHeaders == Init /\ [][NextHeaders]_vars

\* One block, in two places, rendered and refreshed while the clock runs.
NextStale ==
    \/ \E h \in Handlers :
          \/ ProcessBlock(h, StaleSources)
          \/ GetFromCache(h)
          \/ ExecuteQuery(h, {JsonResponse})
          \/ SaveEnsure(h)
          \/ SaveWrite(h)
          \/ Refresh(h)
    \/ Tick
    \/ VaultReconcile

SpecStale == Init /\ [][NextStale]_vars

\* One block rendered and refreshed, every call it awaits returning or
\* failing in the end.
NextLive ==
    \/ ProcessBlock("h1", CachedSources)
    \/ GetFromCache("h1")
    \/ ExecuteQuery("h1", TransportOutcomes)
    \/ SaveEnsure("h1")
    \/ SaveWrite("h1")
    \/ Refresh("h1")
    \/ VaultReconcile

SpecLive ==
    /\ Init
    /\ [][NextLive]_vars
    /\ WF_vars(GetFromCache("h1"))
    /\ WF_vars(ExecuteQuery("h1", TransportOutcomes))
    /\ WF_vars(SaveEnsure("h1"))
    /\ WF_vars(SaveWrite("h1"))

(***************************************************************************)
(* Properties.                                                             *)
(***************************************************************************)
IsPrefix(a, b) == Len(a) <= Len(b) /\ SubSeq(b, 1, Len(a)) = a

HasError(r) == Get(r, "error") # Undefined

\* The step in which handler h's getFromCache returns.
LookupReturns(h) == hs[h].pc = "lookup" /\ hs'[h].pc # "lookup"

\* What a lookup should find for handler h, by the files as they are.
EntryPresent(h) == generateCacheKey(hs[h].query) \in DOMAIN files
EntryOf(h) == JSONparse(files[generateCacheKey(hs[h].query)])
AgedOut(timestamp) == now - timestamp > cacheDuration * 60000

\* C1: a lookup returns absent exactly when no entry is stored under the
\* descriptor's fingerprint or the stored entry is older than cacheDuration
\* minutes (strictly), and otherwise returns the stored Result; an entry 61
\* minutes old is a miss at 60 minutes and a hit at 120, and one exactly as
\* old as the duration is a hit.
C1_LookupAbsentExactlyWhenMissingOrExpired ==
    [][\A h \in Handlers : LookupReturns(h) =>
          LET absent == hs'[h].cachedResult = Null
              stale == EntryPresent(h) /\ AgedOut(Get(EntryOf(h), "timestamp").n)
          IN  /\ absent <=> (~EntryPresent(h) \/ stale)
              /\ ~absent => hs'[h].cachedResult = EntryOf(h)
              /\ IsExpired(61 * 60000, 0, 60)
              /\ ~IsExpired(61 * 60000, 0, 120)
              /\ ~IsExpired(60 * 60000, 0, 60)]_vars

\* C2: after store(d, r), with no store or clearAll in between, lookup(d)
\* returns a Result equal to r in data, timestamp and error while r is within
\* the expiry window, and absent once the window has passed.
C2_StoreThenLookupReturnsStored ==
    [][\A h \in Handlers :
          LookupReturns(h) /\ generateCacheKey(hs[h].query) \in DOMAIN lastStore =>
              LET r == lastStore[generateCacheKey(hs[h].query)].result
                  got == hs'[h].cachedResult
              IN  IF AgedOut(Get(r, "timestamp").n)
                  THEN got = Null
                  ELSE /\ got # Null
                       /\ Get(got, "data") = Get(r, "data")
                       /\ Get(got, "timestamp") = Get(r, "timestamp")
                       /\ Get(got, "error") = Get(r, "error")]_vars

\* The fields the fingerprint is made of.
CacheFields == {"url", "type", "method", "body", "query", "variables"}
AgreeOnCacheFields(d, e) == \A f \in CacheFields : Get(d, f) = Get(e, f)

\* C8: two descriptors that agree on url, protocol, method, body, query and
\* variables and differ only in headers or endpointRef have the same
\* fingerprint, so a Result stored for one is what an unexpired lookup of the
\* other returns.
C8_HeadersApartSameEntry ==
    [][\A h \in Handlers : \A k \in DOMAIN lastStore :
          (/\ LookupReturns(h)
           /\ AgreeOnCacheFields(lastStore[k].params, hs[h].query)
           /\ \/ Get(lastStore[k].params, "headers") # Get(hs[h].query, "headers")
              \/ Get(lastStore[k].params, "endpoint") # Get(hs[h].query, "endpoint"))
          => /\ k = generateCacheKey(hs[h].query)
             /\ ~AgedOut(Get(lastStore[k].result, "timestamp").n)
                   => hs'[h].cachedResult = lastStore[k].result]_vars

\* What the descriptor that handler h parsed lacks.
Parsed(h) == hs[h].parsed # Undefined /\ hs[h].parsed.ok
Executed(h) == Len(hs[h].trace) >= 3 /\ hs[h].trace[3] = "execute"
Unsupported(q) ==
    Get(q, "type") \notin {Str("rest"), Str("graphql"), Str("grpc"), Str("rpc")}
MissingField(q) ==
    \/ ~Truthy(Get(q, "url"))
    \/ Get(q, "type") = Str("graphql") /\ ~Truthy(Get(q, "query"))
TransportFailed(h) == Len(hs[h].sent) = 1 /\ hs[h].outcome.fails

\* C3: execute never raises; it returns a Result, and when the protocol is
\* unsupported, a required field (url; query for graphql) is missing, or the
\* transport call fails, that Result has data = null and a non-empty error.
C3_ExecuteNeverRaises ==
    \A h \in Handlers : Executed(h) =>
        /\ hs[h].trace # <<"parse", "lookup", "execute", "catch">>
        /\ hs[h].result # Undefined
        /\ {"data", "timestamp"} \subseteq Keys(hs[h].result)
        /\ (\/ Unsupported(hs[h].parsed.value)
            \/ MissingField(hs[h].parsed.value)
            \/ TransportFailed(h))
           => /\ Get(hs[h].result, "data") = Null
              /\ Get(hs[h].result, "error").t = "string"
              /\ Get(hs[h].result, "error").s # ""

\* Scenario E: a block of type "soap" was executed.
C3_Witness ==
    \E h \in Handlers :
        /\ Executed(h)
        /\ Get(hs[h].parsed.value, "type") = Str("soap")
        /\ HasError(hs[h].result)

WellFormedResult(r, caught) ==
    /\ HasError(r) <=> caught
    /\ HasError(r) => Get(r, "data") = Null

\* C4: every Result there is (returned by execute, passed to store, kept in
\* the cache, returned by lookup) has an error exactly when the Dispatcher
\* caught a failure building it, and has data = null when it has an error.
C4_ErrorIffCaught ==
    /\ \A h \in Handlers :
          /\ hs[h].result # Undefined => WellFormedResult(hs[h].result, hs[h].caught)
          /\ Truthy(hs[h].cachedResult)
                => WellFormedResult(hs[h].cachedResult, hs[h].cachedCaught)
          /\ \A i \in 1..Len(hs[h].stores) :
                WellFormedResult(hs[h].stores[i].result, hs[h].caught)
    /\ \A k \in DOMAIN files : WellFormedResult(JSONparse(files[k]), entryCaught[k])

\* A lookup returned a Result that carries an error.
C4_Witness ==
    \E h \in Handlers : Truthy(hs[h].cachedResult) /\ HasError(hs[h].cachedResult)

HitTrace == <<"parse", "lookup", "render">>
MissTrace == <<"parse", "lookup", "execute", "store", "render">>

\* C5: for a parsed descriptor the handler looks up, then only on a miss
\* executes, stores and renders: on a hit it makes no transport call and no
\* cache write; on a miss it makes exactly one execute call and then exactly
\* one store, of that call's Result, under the same descriptor.
C5_LookupThenOnMissExecuteStoreRender ==
    \A h \in Handlers : Parsed(h) =>
        /\ IsPrefix(hs[h].trace, HitTrace) \/ IsPrefix(hs[h].trace, MissTrace)
        /\ Len(hs[h].sent) <= 1
        /\ Truthy(hs[h].cachedResult)
              => /\ hs[h].trace = HitTrace
                 /\ hs[h].sent = <<>>
                 /\ hs[h].stores = <<>>
                 /\ hs[h].view = renderResult(hs[h].cachedResult)
        /\ (hs[h].pc = "done" /\ ~Truthy(hs[h].cachedResult))
              => /\ hs[h].trace = MissTrace
                 /\ Len(hs[h].stores) = 1
                 /\ hs[h].stores[1].result = hs[h].result
                 /\ hs[h].stores[1].key = generateCacheKey(hs[h].parsed.value)
        /\ hs[h].stores # <<>> => Executed(h) /\ hs[h].pc = "done"

\* A render that was served from the cache.
C5_Witness ==
    \E h \in Handlers :
        hs[h].pc = "done" /\ Truthy(hs[h].cachedResult) /\ hs[h].trace = HitTrace

\* The step in which handler h's parse throws.
ParseThrows(h) ==
    /\ hs'[h] # hs[h]
    /\ hs'[h].trace = <<"parse", "catch">>

\* C6: when parse fails, the handler shows the error and makes no cache
\* lookup, no transport call and no cache write; the persisted cache is
\* unchanged.
C6_ParseErrorStopsThePipeline ==
    /\ [](\A h \in Handlers :
             (hs[h].parsed # Undefined /\ ~hs[h].parsed.ok) =>
                 /\ hs[h].pc = "done"
                 /\ hs[h].trace = <<"parse", "catch">>
                 /\ hs[h].cachedResult = Undefined
                 /\ hs[h].sent = <<>>
                 /\ hs[h].stores = <<>>
                 /\ hs[h].view = [cls |-> "data-fetcher-error",
                                  shown |-> Str("Error: " \o hs[h].parsed.message)])
    /\ [][\A h \in Handlers : ParseThrows(h) => files' = files]_vars

\* A parse failed while the cache held an entry.
C6_Witness ==
    \E h \in Handlers :
        /\ hs[h].parsed # Undefined
        /\ ~hs[h].parsed.ok
        /\ files # EmptyMap

\* C7: the fingerprint of a descriptor is the same for any two descriptors
\* that are logically equal, whatever the order their fields were inserted
\* in, the keys of a structured body and of variables included.
RECURSIVE LogicallyEqual(_, _)
LogicallyEqual(v, w) ==
    IF v.t = "object" /\ w.t = "object"
    THEN /\ Keys(v) = Keys(w)
         /\ \A k \in Keys(v) : LogicallyEqual(Get(v, k), Get(w, k))
    ELSE v = w

C7_FingerprintOrderIndependent ==
    \A g, h \in Handlers :
        (Parsed(g) /\ Parsed(h) /\ LogicallyEqual(hs[g].query, hs[h].query))
            => generateCacheKey(hs[g].query) = generateCacheKey(hs[h].query)

\* The step in which handler h's saveToCache returns.
StoreReturns(h) == hs[h].pc = "write" /\ hs'[h].pc # "write"

\* C9: store never raises to its caller: when the folder creation or the
\* file write fails, store completes normally, the handler renders the
\* fetched Result, and the entries persisted before are left as they were.
C9_StoreNeverRaises ==
    /\ [](\A h \in Handlers :
             /\ hs[h].pc = "write" => hs[h].trace = <<"parse", "lookup", "execute">>
             /\ hs[h].stores # <<>> =>
                   /\ hs[h].trace = MissTrace
                   /\ hs[h].view = renderResult(hs[h].result))
    /\ [][\A h \in Handlers :
             (StoreReturns(h) /\ ~hs'[h].stores[1].wrote) => files' = files]_vars

\* A store whose write failed, in a cache that held an entry, and the
\* handler showing what it fetched.
C9_Witness ==
    \E h \in Handlers :
        /\ hs[h].pc = "done"
        /\ hs[h].stores # <<>>
        /\ ~hs[h].stores[1].wrote
        /\ hs[h].view = renderResult(hs[h].result)
        /\ files # EmptyMap

\* C10 as stated: after clearAll returns, every listed entry has had its
\* delete attempted, the only entries still present are those whose own
\* delete failed, and the reported count is the number of entries deleted.
C10_OnlyFailedDeletesRemain ==
    clr.pc = "done" =>
        /\ clr.listed = clr.removed \cup clr.failed
        /\ clr.remaining \subseteq clr.failed
        /\ clr.reported = Num(Cardinality(clr.removed))

\* C10, amended: after clearAll returns, every entry it listed has had its
\* delete attempted, whatever failed before it; the only entries still
\* present are those whose own delete failed and those a render stored while
\* clearAll was deleting; the reported count is the number of entries deleted.
C10_FailedOrStoredSinceRemain ==
    /\ clr.pc = "remove" => clr.listed = clr.removed \cup clr.failed \cup clr.todo
    /\ clr.pc = "done" =>
          /\ clr.listed = clr.removed \cup clr.failed
          /\ clr.remaining \subseteq clr.failed \cup clr.storedDuring
          /\ clr.reported = Num(Cardinality(clr.removed))
          /\ Len(clr.log) = Cardinality(clr.listed)

\* clearAll returned after a delete that failed and a later one that did not.
C10_Witness ==
    /\ clr.pc = "done"
    /\ Len(clr.log) = 2
    /\ ~clr.log[1].ok
    /\ clr.log[2].ok
    /\ clr.remaining = clr.failed

NoEntries == [count |-> 0, size |-> 0]

\* C11: a clearAll that returns, followed by stats with no store since the
\* clearAll began, gives count = 0 and totalBytes = 0.
C11_ClearThenStatsIsEmpty ==
    (/\ clr.pc = "done"
     /\ clr.info.pc = "done"
     /\ clr.storedDuring = {}
     /\ clr.storedAfter = {})
    => clr.info.cacheInfo = NoEntries

\* Whether handler h's last step was a catch.
Caught(h) == hs[h].trace # <<>> /\ hs[h].trace[Len(hs[h].trace)] = "catch"

\* C12: a storage failure is never raised by lookup, store or stats (stats
\* gives zeros); clearAll alone raises, and does whenever the clear did not
\* succeed, so what its caller reports is 'cleared successfully' only when
\* every listed entry was deleted.
C12_OnlyClearRaisesAndAlwaysOnFailure ==
    /\ \A h \in Handlers : Caught(h) => hs[h].trace = <<"parse", "catch">>
    /\ clr.info.pc = "done" => clr.info.cacheInfo # Undefined
    /\ clr.pc = "raised" => clr.notice = "Failed to clear cache"
    /\ clr.pc = "done" =>
          /\ clr.notice = "Cache cleared successfully"
          /\ clr.failed = {}

\* The step in which getCacheInfo's ensure or its list and stats return.
StatsSteps == clr.info.pc \in {"ensure", "list"} /\ clr'.info.pc # clr.info.pc
StatsReturns == clr.info.pc = "list" /\ clr'.info.pc = "done"

\* C13: persisted entries are removed by clearAll alone: a lookup, be it a
\* hit, a miss or an expired entry, leaves the entries and their contents as
\* they were; a store changes the entry at its own fingerprint and no other;
\* stats changes nothing, and what it counts are the entries present,
\* expired or not.
C13_OnlyClearRemovesEntries ==
    [][/\ \A h \in Handlers : LookupReturns(h) => files' = files
       /\ \A h \in Handlers : StoreReturns(h) =>
             \A k \in (DOMAIN files \cup DOMAIN files') \ {generateCacheKey(hs[h].query)} :
                 k \in DOMAIN files /\ k \in DOMAIN files' /\ files'[k] = files[k]
       /\ StatsSteps => files' = files
       /\ StatsReturns =>
             \/ clr'.info.cacheInfo = NoEntries
             \/ clr'.info.cacheInfo = [count |-> Cardinality(DOMAIN files),
                                       size |-> TotalSize(files, DOMAIN files)]
       /\ DOMAIN files \ DOMAIN files' # {} =>
             /\ clr.pc = "remove"
             /\ clr'.removed = clr.removed \cup (DOMAIN files \ DOMAIN files')]_vars

\* Stats counted an entry that had expired, and a lookup found that entry
\* expired and left it there.
C13_Witness ==
    /\ clr.info.pc = "done"
    /\ clr.info.cacheInfo.count = Cardinality(DOMAIN files)
    /\ clr.info.cacheInfo.count >= 1
    /\ \A k \in DOMAIN files : AgedOut(Get(JSONparse(files[k]), "timestamp").n)
    /\ \E h \in Handlers :
          /\ hs[h].pc = "fetch"
          /\ hs[h].cachedResult = Null
          /\ generateCacheKey(hs[h].query) \in DOMAIN files \cap vaultFiles

\* The files with the text of `result` under `key`.
Overwritten(stored, key, result) ==
    [k \in DOMAIN stored \cup {key} |->
        IF k = key THEN JSONstringify(result) ELSE stored[k]]

\* C14: when two handlers, rendering or refreshing, interleave their
\* fetch-then-store for one fingerprint, each store whose write goes through
\* replaces the entry with the whole of its own Result, so the entry
\* persisted after both is the Result of the store that completed last: one
\* of the two, never a mixture, never missing.
C14_LastStoreWins ==
    /\ [](\A k \in DOMAIN files :
             /\ k \in DOMAIN lastStore
             /\ files[k] = JSONstringify(lastStore[k].result))
    /\ [](\A g, h \in Handlers :
             (/\ g # h
              /\ hs[g].pc = "done" /\ hs[g].stores # <<>> /\ hs[g].stores[1].wrote
              /\ hs[h].pc = "done" /\ hs[h].stores # <<>> /\ hs[h].stores[1].wrote
              /\ hs[g].stores[1].key = hs[h].stores[1].key)
             => /\ hs[g].stores[1].key \in DOMAIN files
                /\ files[hs[g].stores[1].key]
                      \in {JSONstringify(hs[g].result), JSONstringify(hs[h].result)})
    /\ [][\A h \in Handlers : StoreReturns(h) =>
             files' = IF hs'[h].stores[1].wrote
                      THEN Overwritten(files, generateCacheKey(hs[h].query), hs[h].result)
                      ELSE files]_vars

\* A render and a refresh stored two different Results under one
\* fingerprint, and the entry is the one stored last.
C14_Witness ==
    /\ hs["h1"].pc = "done" /\ hs["h1"].stores # <<>> /\ hs["h1"].stores[1].wrote
    /\ hs["h2"].pc = "done" /\ hs["h2"].stores # <<>> /\ hs["h2"].stores[1].wrote
    /\ hs["h1"].stores[1].key = hs["h2"].stores[1].key
    /\ hs["h1"].trace[1] = "parse"
    /\ hs["h2"].trace[1] = "refresh"
    /\ hs["h1"].result # hs["h2"].result
    /\ files[hs["h1"].stores[1].key] = JSONstringify(hs["h1"].result)
    /\ lastStore[hs["h1"].stores[1].key].result = hs["h1"].result

\* C18: a manual refresh calls execute without a lookup, even when an
\* unexpired entry exists, and overwrites the entry at the descriptor's
\* fingerprint, so the next lookup within the window returns the refreshed
\* Result.
C18_RefreshOverwritesForNextLookup ==
    [][\A h \in Handlers :
          /\ hs[h].trace = <<"refresh">> /\ hs'[h] # hs[h]
                => hs'[h].trace[2] = "execute"
          /\ (/\ LookupReturns(h)
              /\ generateCacheKey(hs[h].query) \in DOMAIN lastStore
              /\ lastStore[generateCacheKey(hs[h].query)].by = "refresh"
              /\ ~AgedOut(Get(lastStore[generateCacheKey(hs[h].query)].result,
                              "timestamp").n))
                => hs'[h].cachedResult
                      = lastStore[generateCacheKey(hs[h].query)].result]_vars

\* The step in which an ensureCacheFolder returns: the constructor's, a
\* store's, clearAll's or stats'.
EnsureReturns ==
    \/ ctor = "pending" /\ ctor' = "done"
    \/ \E h \in Handlers : hs[h].pc = "ensure" /\ hs'[h].pc = "write"
    \/ clr.pc # "list" /\ clr'.pc = "list"
    \/ clr.info.pc = "ensure" /\ clr'.info.pc = "list"

\* C15: ensuring the cache folder is idempotent and comes before the
\* operation's own use of the storage: however the constructor's un-awaited
\* ensure interleaves with the awaited ensures of store, clearAll and stats
\* and with lookups, an ensure on a folder that is there changes nothing, the
\* folder once there stays, and unless its own createFolder failed an
\* operation finds the folder there when it lists or writes, so that no
\* write is lost and no clearAll raises for want of the folder.
C15_EnsureIsIdempotentAndFirst ==
    /\ [](/\ \A h \in Handlers :
               /\ (hs[h].pc = "write" /\ ~hs[h].ensureFailed) => folder
               /\ (hs[h].stores # <<>> /\ ~hs[h].stores[1].wrote /\ ~hs[h].ensureFailed)
                     => folder
          /\ (clr.pc \in {"list", "raised"} /\ ~clr.ensureFailed) => folder
          /\ (clr.info.pc = "list" /\ ~clr.info.ensureFailed) => folder
          /\ files # EmptyMap => folder)
    /\ [][/\ folder => folder'
          /\ EnsureReturns => files' = files]_vars

\* With the constructor's ensure still under way, a store has written, a
\* clearAll has returned and stats have been taken.
C15_Witness ==
    /\ ctor = "pending"
    /\ \E h \in Handlers : hs[h].stores # <<>> /\ hs[h].stores[1].wrote
    /\ clr.pc = "done"
    /\ clr.info.pc = "done"
    /\ clr.info.cacheInfo # Undefined

\* C16: a Descriptor is immutable once parsed: execute, for any protocol,
\* leaves every field of it, its headers included, as the Parser made it, so
\* the descriptor kept for a refresh is the one that was parsed.
C16_ExecuteLeavesDescriptorAlone ==
    \A h \in Handlers : (Parsed(h) /\ Executed(h)) => hs[h].query = hs[h].parsed.value

\* What the executor of handler h reads from the response it was given.
ReadOf(h) ==
    IF Get(hs[h].parsed.value, "type") = Str("rest")
    THEN RestPayload(hs[h].outcome)
    ELSE ResponseJson(hs[h].outcome)

\* C17: an execute call makes at most one transport request, succeed or fail,
\* and none when the protocol is unsupported or a required field is missing;
\* the Result it returns is built from that one response or failure.
C17_OneRequestPerExecute ==
    \A h \in Handlers : Executed(h) =>
        /\ Len(hs[h].sent) <= 1
        /\ (Unsupported(hs[h].parsed.value) \/ MissingField(hs[h].parsed.value))
              <=> hs[h].sent = <<>>
        /\ hs[h].sent # <<>> =>
              /\ hs[h].sent[1].url = Get(hs[h].parsed.value, "url")
              /\ IF hs[h].outcome.fails
                 THEN /\ Get(hs[h].result, "data") = Null
                      /\ Get(hs[h].result, "error") = Str(hs[h].outcome.message)
                 ELSE IF ReadOf(h).ok
                 THEN /\ Get(hs[h].result, "data") = ReadOf(h).value
                      /\ ~HasError(hs[h].result)
                 ELSE /\ Get(hs[h].result, "data") = Null
                      /\ Get(hs[h].result, "error") = Str(ReadOf(h).message)

\* A request was sent once, failed, and the Result carries its failure.
C17_Witness ==
    \E h \in Handlers :
        /\ Executed(h)
        /\ hs[h].pc = "done"
        /\ Len(hs[h].sent) = 1
        /\ hs[h].outcome.fails
        /\ Get(hs[h].result, "error") = Str(hs[h].outcome.message)

\* The headers the text of a reference block gives: the objects of its
\* `headers:` lines.
HeaderLines(source) ==
    {i \in 1..Len(source.lines) :
        source.lines[i].key = "headers" /\ JSONparseText(source.lines[i].value).ok}

\* C19: reference-mode parsing merges the endpoint's headers with the
\* headers of the query text: the Descriptor carries the query's value for
\* every header the text sets and the endpoint's value for every other
\* header of the endpoint, and the endpoint's own headers are not modified.
C19_QueryHeadersOverrideEndpointHeaders ==
    /\ [](\A h \in Handlers :
             (Parsed(h) /\ hs[h].source.at) =>
                 LET endpoint == FindEndpoint(endpoints, hs[h].source.alias)
                     headers == Get(hs[h].parsed.value, "headers")
                     given == {JSONparseText(hs[h].source.lines[i].value).value :
                                  i \in HeaderLines(hs[h].source)}
                     set == UNION {Keys(o) : o \in given}
                 IN  /\ \A o \in given : \A k \in Keys(o) : Get(headers, k) = Get(o, k)
                     /\ \A k \in Keys(endpoint.headers) \ set :
                           Get(headers, k) = Get(endpoint.headers, k))
    /\ [][\A i \in 1..Len(endpoints) : endpoints'[i] = endpoints[i]]_vars

\* C20: direct-mode parsing fails when the source is no parseable object,
\* when type is missing or when url is missing; otherwise it succeeds and
\* the Descriptor's endpointRef is "direct", whatever fields the object has.
C20_DirectModeIsDirect ==
    \A h \in Handlers :
        (hs[h].parsed # Undefined /\ ~hs[h].source.at) =>
            LET text == JSONparseText(hs[h].source.text)
                accepted == /\ text.ok
                            /\ text.value.t = "object"
                            /\ Truthy(Get(text.value, "type"))
                            /\ Truthy(Get(text.value, "url"))
            IN  /\ hs[h].parsed.ok <=> accepted
                /\ hs[h].parsed.ok =>
                      Get(hs[h].parsed.value, "endpoint") = Str("direct")

Protocols == {Str("rest"), Str("graphql"), Str("grpc"), Str("rpc")}

\* C21: every Descriptor a successful parse returns, in reference mode and
\* in direct mode, has a non-empty url and a protocol that is one of rest,
\* graphql, grpc, rpc, whatever endpoints the settings hold, one just added
\* with an empty url included.
C21_ParsedHasUrlAndProtocol ==
    \A h \in Handlers : Parsed(h) =>
        /\ Get(hs[h].parsed.value, "url").t = "string"
        /\ Get(hs[h].parsed.value, "url").s # ""
        /\ Get(hs[h].parsed.value, "type") \in Protocols

\* The request handler h sent, and the headers and body its block gave.
SentBy(h) == hs[h].sent[1]
CallerHeaders(h) == OrElse(Get(hs[h].parsed.value, "headers"), Obj(<<>>))
CallerBody(h) == Get(hs[h].parsed.value, "body")
Structured(v) == Truthy(v) /\ v.t = "object"

\* C22: for every protocol the request handed to the transport carries every
\* caller-supplied header with the caller's value, and the injected
\* Content-Type: application/json only when the caller has not set
\* Content-Type; for rest it is injected only when the body is structured, and
\* a raw-string body is passed through unchanged.
C22_CallerHeadersWinOverInjectedContentType ==
    \A h \in Handlers : (Parsed(h) /\ Executed(h) /\ hs[h].sent # <<>>) =>
        /\ \A k \in Keys(CallerHeaders(h)) :
              Get(SentBy(h).headers, k) = Get(CallerHeaders(h), k)
        /\ Keys(SentBy(h).headers) \ Keys(CallerHeaders(h)) \subseteq {"Content-Type"}
        /\ "Content-Type" \in Keys(SentBy(h).headers) \ Keys(CallerHeaders(h)) =>
              Get(SentBy(h).headers, "Content-Type") = Str("application/json")
        /\ Get(hs[h].parsed.value, "type") = Str("rest") =>
              /\ ~Structured(CallerBody(h)) =>
                    Keys(SentBy(h).headers) = Keys(CallerHeaders(h))
              /\ (Truthy(CallerBody(h)) /\ CallerBody(h).t = "string") =>
                    SentBy(h).body = CallerBody(h)

\* C23: a Result carrying an error is cached like a successful one: after a
\* render whose fetch failed the error Result is stored under the
\* descriptor's fingerprint, and every later render of the same descriptor
\* within the expiry window returns that error Result from the cache, with no
\* transport call.
C23_ErrorResultServedFromCache ==
    [][\A h \in Handlers :
          LET cacheKey == generateCacheKey(hs[h].query) IN
          /\ (StoreReturns(h) /\ HasError(hs[h].result)
                 /\ hs'[h].stores[Len(hs'[h].stores)].wrote) =>
                 /\ cacheKey \in DOMAIN files'
                 /\ JSONparse(files'[cacheKey]) = hs[h].result
          /\ (LookupReturns(h) /\ cacheKey \in DOMAIN lastStore
                 /\ HasError(lastStore[cacheKey].result)
                 /\ ~AgedOut(Get(lastStore[cacheKey].result, "timestamp").n)) =>
                 /\ hs'[h].cachedResult = lastStore[cacheKey].result
                 /\ hs'[h].view = renderResult(lastStore[cacheKey].result)
                 /\ hs'[h].pc = "done"
                 /\ hs'[h].sent = <<>>]_vars

\* The timestamp of the entry kept under a key.
TimestampOf(stored, key) == Get(JSONparse(stored[key]), "timestamp").n

Running(h) == hs[h].pc \in {"lookup", "fetch", "ensure", "write"}
Loading(h) == hs[h].view.cls = "data-fetcher-loading"
Rendered(h) == hs[h].view.cls \in {"data-fetcher-result", "data-fetcher-error"}

\* C25: every transport call and every storage call returning or failing in
\* the end, every invocation of the query-block handler and of the refresh
\* handler finishes with a rendered Result or a rendered error message: it
\* never stays in "Fetching data..." or "Refreshing data...", the store
\* failing or not.
C25_HandlersFinishRendered ==
    /\ [](\A h \in Handlers : hs[h].pc = "done" => Rendered(h))
    /\ \A h \in Handlers : Running(h) ~> (hs[h].pc = "done" /\ Rendered(h))
    /\ \A h \in Handlers : Loading(h) ~> Rendered(h)

\* A refresh showed "Refreshing data...", its store failed, and it finished
\* with the Result rendered.
C25_Witness ==
    \E h \in Handlers :
        /\ hs[h].pc = "done"
        /\ hs[h].trace[1] = "refresh"
        /\ hs[h].stores # <<>>
        /\ ~hs[h].stores[Len(hs[h].stores)].wrote
        /\ hs[h].view.cls = "data-fetcher-result"
====
